---- MODULE Spec2Model ----
(***************************************************************************)
(* The resource modules of the health API (patients, providers,           *)
(* appointments, encounters, prescriptions, labs, vitals, inventory,      *)
(* billing): each module's Zod request schemas, its Mongoose schema and   *)
(* its Express handlers over one MongoDB collection.                      *)
(*                                                                         *)
(* A JSON value is a record [kind, v]; text that the code matches against *)
(* a pattern (names, date strings) is a sequence of one-character strings, *)
(* so that the regular expressions and new Date() are computed, not       *)
(* assumed.  A numeric JSON value is kept in tenths (15 is 1.5).          *)
(* Mongoose is taken at version 6 or later, the versions that know        *)
(* mongoose.set('strictQuery', ...) as src/src/config/mongo.js calls it:  *)
(* keys whose value is undefined are removed from an update.              *)
(***************************************************************************)
EXTENDS Integers, Sequences, FiniteSets, TLC

VARIABLES store, nextId, now, resp, focus, before, inflight

vars == <<store, nextId, now, resp, focus, before, inflight>>

\* Bounds: the ObjectIds the store can assign in one run, and the clock.
MaxRecords == 2
MaxClock == 1

(***************************************************************************)
(* JSON values                                                             *)
(***************************************************************************)
Undefined == [kind |-> "undefined", v |-> 0]
Str(s) == [kind |-> "string", v |-> s]
Num(n) == [kind |-> "number", v |-> n]
Bool(b) == [kind |-> "boolean", v |-> b]
ObjectId(s) == [kind |-> "objectid", v |-> s]
DateOf(t) == [kind |-> "date", v |-> t]

Null == [kind |-> "null", v |-> 0]

\* new Date(NaN): the Invalid Date.
InvalidDate == DateOf(<<>>)

\* obj[key] of JavaScript: undefined when the object has no such key.
Get(obj, key) == IF key \in DOMAIN obj THEN obj[key] ELSE Undefined

\* JSON.parse never yields undefined: a request body has only the keys it carries.
Body(rec) == [k \in {g \in DOMAIN rec : rec[g] # Undefined} |-> rec[k]]

(***************************************************************************)
(* Text, /regex/ and new Date(string)                                      *)
(***************************************************************************)
Digits == {"0", "1", "2", "3", "4", "5", "6", "7", "8", "9"}

DigitSeq == <<"0", "1", "2", "3", "4", "5", "6", "7", "8", "9">>

DigitVal == [c \in Digits |-> (CHOOSE i \in 1..10 : DigitSeq[i] = c) - 1]

Num2(s, i) == DigitVal[s[i]] * 10 + DigitVal[s[i + 1]]

Num3(s, i) == DigitVal[s[i]] * 100 + Num2(s, i + 1)

Num4(s, i) == Num2(s, i) * 100 + Num2(s, i + 2)

\* /^\d{4}-\d{2}-\d{2}$/
MatchDate(s) ==
    /\ Len(s) = 10
    /\ \A i \in {1, 2, 3, 4, 6, 7, 9, 10} : s[i] \in Digits
    /\ s[5] = "-" /\ s[8] = "-"

\* /^\d{4}-\d{2}-\d{2}T\d{2}:\d{2}:\d{2}\.\d{3}Z?$/
MatchDateTime(s) ==
    /\ Len(s) \in {23, 24}
    /\ \A i \in {1, 2, 3, 4, 6, 7, 9, 10, 12, 13, 15, 16, 18, 19, 21, 22, 23} :
          s[i] \in Digits
    /\ s[5] = "-" /\ s[8] = "-" /\ s[11] = "T"
    /\ s[14] = ":" /\ s[17] = ":" /\ s[20] = "."
    /\ Len(s) = 24 => s[24] = "Z"

\* new Date(s) for a string that matched one of the two patterns: the time
\* value <<year, month, day, hour, minute, second, ms>>, or the Invalid Date
\* when a component is out of range (the server's zone is taken as UTC, so
\* the optional Z changes nothing).
NewDate(s) ==
    LET t == IF Len(s) = 10
             THEN <<Num4(s, 1), Num2(s, 6), Num2(s, 9), 0, 0, 0, 0>>
             ELSE <<Num4(s, 1), Num2(s, 6), Num2(s, 9),
                    Num2(s, 12), Num2(s, 15), Num2(s, 18), Num3(s, 21)>>
    IN IF /\ t[2] \in 1..12 /\ t[3] \in 1..31
          /\ t[4] \in 0..23 /\ t[5] \in 0..59 /\ t[6] \in 0..59
       THEN DateOf(t)
       ELSE InvalidDate

\* a < b for two time values.
RECURSIVE SeqLess(_, _)
SeqLess(a, b) ==
    IF a = <<>> \/ b = <<>> THEN FALSE
    ELSE IF Head(a) # Head(b) THEN Head(a) < Head(b)
    ELSE SeqLess(Tail(a), Tail(b))

\* Lower case, for the letters the sample texts use.
Lower(c) ==
    CASE c = "J" -> "j" [] c = "D" -> "d" [] c = "W" -> "w" [] c = "G" -> "g"
      [] c = "P" -> "p" [] c = "C" -> "c" [] c = "B" -> "b" [] OTHER -> c

LowerText(s) == [i \in 1..Len(s) |-> Lower(s[i])]

\* { $regex: term, $options: 'i' } for a term of plain characters: term
\* occurs in s, whatever the case.
RegexMatchI(term, s) ==
    \E i \in 0..(Len(s) - Len(term)) :
        SubSeq(LowerText(s), i + 1, i + Len(term)) = LowerText(term)

(***************************************************************************)
(* Zod: the request schemas of the nine modules                            *)
(***************************************************************************)
ZRule(type) ==
    [type |-> type, min |-> 0, int |-> FALSE, lower |-> "none",
     values |-> {}, optional |-> FALSE]

ZString == ZRule("string")

ZStringMin(n) == [ZRule("string") EXCEPT !.min = n]

ZDate == ZRule("date")

ZDateTime == ZRule("datetime")

\* An enum checked as a plain string: any text passes.
ZEnumAnyString(values) == ZRule("string")

ZEnum(values) == [ZRule("enum") EXCEPT !.values = values]

ZBoolean == ZRule("boolean")

ZNumber == ZRule("number")

ZIntNonnegative == [ZRule("number") EXCEPT !.int = TRUE, !.lower = "nonnegative"]

\* A number rule without .int() and without a lower bound.
ZNumberUnbounded == ZRule("number")

ZIntPositive == [ZRule("number") EXCEPT !.int = TRUE, !.lower = "positive"]

ZPositive == [ZRule("number") EXCEPT !.lower = "positive"]

ZOptional(rule) == [rule EXCEPT !.optional = TRUE]

PatientCreate ==
    [name |-> ZStringMin(2), dob |-> ZDate,
     gender |-> ZOptional(ZEnum({"M", "F", "O"}))]

ProviderCreate ==
    [name |-> ZStringMin(2), specialty |-> ZStringMin(2),
     active |-> ZOptional(ZBoolean)]

AppointmentCreate ==
    [patientId |-> ZString, providerId |-> ZString,
     start |-> ZDateTime, end |-> ZDateTime,
     status |-> ZOptional(ZEnum({"scheduled", "completed", "cancelled"}))]

EncounterCreate ==
    [patientId |-> ZString, providerId |-> ZString, date |-> ZDateTime,
     notes |-> ZOptional(ZString)]

PrescriptionCreate ==
    [patientId |-> ZString, providerId |-> ZString,
     medication |-> ZString, dosage |-> ZString,
     startDate |-> ZDate, endDate |-> ZDate,
     status |-> ZOptional(ZEnum({"active", "completed", "cancelled"}))]

LabCreate ==
    [patientId |-> ZString, testName |-> ZString, result |-> ZString,
     date |-> ZDate]

VitalsCreate ==
    [patientId |-> ZString, date |-> ZDate, heartRate |-> ZIntPositive,
     bloodPressure |-> ZString, temperature |-> ZNumber]

InventoryCreate ==
    [name |-> ZString, quantity |-> ZIntNonnegative,
     reorderLevel |-> ZOptional(ZIntNonnegative)]

BillingCreate ==
    [patientId |-> ZString, amount |-> ZPositive,
     status |-> ZOptional(ZEnum({"unpaid", "paid", "pending"})),
     dueDate |-> ZDate]

Modules ==
    {"patients", "providers", "appointments", "encounters", "prescriptions",
     "labs", "vitals", "inventory", "billing"}

CreateSchema ==
    [m \in Modules |->
        CASE m = "patients" -> PatientCreate
          [] m = "providers" -> ProviderCreate
          [] m = "appointments" -> AppointmentCreate
          [] m = "encounters" -> EncounterCreate
          [] m = "prescriptions" -> PrescriptionCreate
          [] m = "labs" -> LabCreate
          [] m = "vitals" -> VitalsCreate
          [] m = "inventory" -> InventoryCreate
          [] m = "billing" -> BillingCreate]

\* schema.partial(): every key optional.
Partial(schema) == [k \in DOMAIN schema |-> ZOptional(schema[k])]

UpdateSchema == [m \in Modules |-> Partial(CreateSchema[m])]

\* The issue Zod raises for one key, "none" when the value passes.
ZodIssue(rule, val) ==
    IF val.kind = "undefined"
    THEN IF rule.optional THEN "none" ELSE "required"
    ELSE CASE rule.type = "string" ->
                IF val.kind # "string" THEN "invalid_type"
                ELSE IF Len(val.v) < rule.min THEN "too_small"
                ELSE "none"
           [] rule.type = "date" ->
                IF val.kind # "string" THEN "invalid_type"
                ELSE IF ~MatchDate(val.v) THEN "invalid_string"
                ELSE "none"
           [] rule.type = "datetime" ->
                IF val.kind # "string" THEN "invalid_type"
                ELSE IF ~MatchDateTime(val.v) THEN "invalid_string"
                ELSE "none"
           [] rule.type = "enum" ->
                IF val.kind # "string" THEN "invalid_type"
                ELSE IF val.v \notin rule.values THEN "invalid_enum_value"
                ELSE "none"
           [] rule.type = "boolean" ->
                IF val.kind # "boolean" THEN "invalid_type" ELSE "none"
           [] rule.type = "number" ->
                IF val.kind # "number" THEN "invalid_type"
                ELSE IF rule.int /\ val.v % 10 # 0 THEN "invalid_type"
                ELSE IF rule.lower = "nonnegative" /\ val.v < 0 THEN "too_small"
                ELSE IF rule.lower = "positive" /\ val.v <= 0 THEN "too_small"
                ELSE "none"

\* schema.parse(body): the issues of every key (no short circuit) and, when
\* there is none, the body cut down to the keys of the schema.
ZodParse(schema, body) ==
    LET issues == {i \in {[path |-> k, code |-> ZodIssue(schema[k], Get(body, k))] :
                            k \in DOMAIN schema} : i.code # "none"}
    IN [ok |-> issues = {},
        errors |-> issues,
        data |-> [k \in DOMAIN schema \cap DOMAIN body |-> body[k]]]

(***************************************************************************)
(* Mongoose: the collection schemas of the nine modules                    *)
(***************************************************************************)
Path(type) ==
    [type |-> type, required |-> FALSE, hasDefault |-> FALSE,
     default |-> Undefined, enum |-> {}]

Required(type) == [Path(type) EXCEPT !.required = TRUE]

\* A path declared without its default option.
Undeclared(type, val) == Path(type)

Default(type, val) == [Path(type) EXCEPT !.hasDefault = TRUE, !.default = val]

EnumDefault(values, val) ==
    [Path("String") EXCEPT !.hasDefault = TRUE, !.default = val, !.enum = values]

patientSchema ==
    [name |-> Required("String"), dob |-> Required("Date"),
     gender |-> EnumDefault({"M", "F", "O"}, Str("O"))]

providerSchema ==
    [name |-> Required("String"), specialty |-> Required("String"),
     active |-> Default("Boolean", Bool(TRUE))]

appointmentSchema ==
    [patientId |-> Required("ObjectId"), providerId |-> Required("ObjectId"),
     start |-> Required("Date"), end |-> Required("Date"),
     status |-> EnumDefault({"scheduled", "completed", "cancelled"}, Str("scheduled"))]

encounterSchema ==
    [patientId |-> Required("ObjectId"), providerId |-> Required("ObjectId"),
     date |-> Required("Date"), notes |-> Default("String", Str(""))]

prescriptionSchema ==
    [patientId |-> Required("ObjectId"), providerId |-> Required("ObjectId"),
     medication |-> Required("String"), dosage |-> Required("String"),
     startDate |-> Required("Date"), endDate |-> Required("Date"),
     status |-> EnumDefault({"active", "completed", "cancelled"}, Str("active"))]

labSchema ==
    [patientId |-> Required("ObjectId"), testName |-> Required("String"),
     result |-> Required("String"), date |-> Required("Date")]

vitalsSchema ==
    [patientId |-> Required("ObjectId"), date |-> Required("Date"),
     heartRate |-> Required("Number"), bloodPressure |-> Required("String"),
     temperature |-> Required("Number")]

inventorySchema ==
    [name |-> Required("String"), quantity |-> Required("Number"),
     reorderLevel |-> Default("Number", Num(0))]

billingSchema ==
    [patientId |-> Required("ObjectId"), amount |-> Required("Number"),
     status |-> EnumDefault({"unpaid", "paid", "pending"}, Str("unpaid")),
     dueDate |-> Required("Date")]

Schema ==
    [m \in Modules |->
        CASE m = "patients" -> patientSchema
          [] m = "providers" -> providerSchema
          [] m = "appointments" -> appointmentSchema
          [] m = "encounters" -> encounterSchema
          [] m = "prescriptions" -> prescriptionSchema
          [] m = "labs" -> labSchema
          [] m = "vitals" -> vitalsSchema
          [] m = "inventory" -> inventorySchema
          [] m = "billing" -> billingSchema]

Fields(m) == DOMAIN Schema[m]

\* The 24 hexadecimal digits of an ObjectId, as new ObjectId() hands them out.
Hex24 ==
    <<"64b000000000000000000001", "64b000000000000000000002",
      "64b000000000000000000003", "64b000000000000000000004">>

\* Mongoose's cast of one value to the type of its schema path; null and
\* undefined pass every cast and are stored as null.
Cast(type, val) ==
    CASE val.kind \in {"undefined", "null"} -> [ok |-> TRUE, val |-> Null]
      [] type = "ObjectId" ->
            IF val.kind = "string" /\ Len(val.v) = 24
            THEN [ok |-> TRUE, val |-> ObjectId(val.v)]
            ELSE [ok |-> FALSE, val |-> val]
      [] type = "Date" ->
            [ok |-> val.kind = "date" /\ val.v # <<>>, val |-> val]
      [] type = "String" -> [ok |-> val.kind = "string", val |-> val]
      [] type = "Number" -> [ok |-> val.kind = "number", val |-> val]
      [] type = "Boolean" -> [ok |-> val.kind = "boolean", val |-> val]

\* The error Mongoose's validation reports for one path of a new document.
PathError(path, val) ==
    IF val.kind = "undefined"
    THEN IF path.required /\ ~path.hasDefault THEN "required" ELSE "none"
    ELSE IF ~Cast(path.type, val).ok THEN "cast"
    ELSE IF path.required /\ path.type = "String" /\ Len(val.v) = 0 THEN "required"
    ELSE IF path.enum # {} /\ val.v \notin path.enum THEN "enum"
    ELSE "none"

\* err.errors of the ValidationError that Model.create(obj) rejects with.
ValidationErrors(m, obj) ==
    {e \in {[path |-> k, code |-> PathError(Schema[m][k], Get(obj, k))] :
              k \in Fields(m)} : e.code # "none"}

MetaKeys == {"_id", "createdAt", "updatedAt", "__v"}

\* A store that hands every new document the same _id.
NewDocumentSameId(m, obj, id, t) ==
    [k \in Fields(m) \cup MetaKeys |->
        CASE k = "_id" -> ObjectId(Hex24[1])
          [] k \in {"createdAt", "updatedAt"} -> DateOf(<<t>>)
          [] k = "__v" -> Num(0)
          [] OTHER -> IF Get(obj, k).kind = "undefined"
                      THEN Schema[m][k].default
                      ELSE Cast(Schema[m][k].type, obj[k]).val]

\* The document Model.create(obj) inserts: the paths of the schema (keys the
\* schema does not know are dropped), defaults for the absent ones, a fresh
\* _id and both timestamps.
NewDocument(m, obj, id, t) ==
    [k \in Fields(m) \cup MetaKeys |->
        CASE k = "_id" -> ObjectId(id)
          [] k \in {"createdAt", "updatedAt"} -> DateOf(<<t>>)
          [] k = "__v" -> Num(0)
          [] OTHER -> IF Get(obj, k).kind = "undefined"
                      THEN Schema[m][k].default
                      ELSE Cast(Schema[m][k].type, obj[k]).val]

\* The $set of Mongoose before version 6: a key whose value is undefined stays.
KeepUndefined(m, upd) == [k \in DOMAIN upd \cap Fields(m) |-> upd[k]]

\* The $set of an update: the keys of the schema whose value is not undefined.
OmitUndefined(m, upd) ==
    [k \in {j \in DOMAIN upd \cap Fields(m) : upd[j].kind # "undefined"} |-> upd[k]]

\* The cast of an update before it is sent: a value its path cannot take
\* rejects the call with a CastError.
CastUpdate(m, upd) ==
    LET set == OmitUndefined(m, upd)
    IN [error |-> IF \E k \in DOMAIN set : ~Cast(Schema[m][k].type, set[k]).ok
                  THEN "CastError" ELSE "none",
        set |-> [k \in DOMAIN set |-> Cast(Schema[m][k].type, set[k]).val]]

\* findByIdAndUpdate with { upsert: true }: a missing id gets a new document.
FindByIdAndUpsert(m, id, set) ==
    LET hit == {d \in store[m] : d._id = ObjectId(id)}
        old == IF hit = {}
               THEN [k \in Fields(m) \cup MetaKeys |->
                        CASE k = "_id" -> ObjectId(id)
                          [] k = "createdAt" -> DateOf(<<now>>)
                          [] k = "__v" -> Num(0)
                          [] OTHER -> Null]
               ELSE CHOOSE d \in hit : TRUE
        new == [k \in DOMAIN old |->
                  IF k \in DOMAIN set THEN set[k]
                  ELSE IF k = "updatedAt" THEN DateOf(<<now>>)
                  ELSE old[k]]
    IN [doc |-> new, coll |-> (store[m] \ hit) \cup {new}]

\* An update done as delete and insert: the record comes back under a new _id.
FindByIdAndReinsert(m, id, set) ==
    LET hit == {d \in store[m] : d._id = ObjectId(id)}
    IN IF hit = {}
       THEN [doc |-> Null, coll |-> store[m]]
       ELSE LET old == CHOOSE d \in hit : TRUE
                new == [k \in DOMAIN old |->
                          IF k \in DOMAIN set THEN set[k]
                          ELSE IF k = "_id" THEN ObjectId(Hex24[nextId])
                          ELSE IF k = "updatedAt" THEN DateOf(<<now>>)
                          ELSE old[k]]
            IN [doc |-> new, coll |-> (store[m] \ {old}) \cup {new}]

\* An update that replaces the document: the paths the update does not name
\* are gone.
FindByIdAndReplace(m, id, set) ==
    LET hit == {d \in store[m] : d._id = ObjectId(id)}
    IN IF hit = {}
       THEN [doc |-> Null, coll |-> store[m]]
       ELSE LET old == CHOOSE d \in hit : TRUE
                new == [k \in DOMAIN old |->
                          IF k \in DOMAIN set THEN set[k]
                          ELSE IF k = "updatedAt" THEN DateOf(<<now>>)
                          ELSE IF k \in MetaKeys THEN old[k]
                          ELSE Undefined]
            IN [doc |-> new, coll |-> (store[m] \ {old}) \cup {new}]

\* Model.findByIdAndUpdate(id, upd, { new: true }) for a cast update: no
\* validator runs, updatedAt is refreshed; the updated document, or null when
\* no document has the id.
FindByIdAndUpdate(m, id, set) ==
    LET hit == {d \in store[m] : d._id = ObjectId(id)}
    IN IF hit = {}
       THEN [doc |-> Null, coll |-> store[m]]
       ELSE LET old == CHOOSE d \in hit : TRUE
                new == [k \in DOMAIN old |->
                          IF k \in DOMAIN set THEN set[k]
                          ELSE IF k = "updatedAt" THEN DateOf(<<now>>)
                          ELSE old[k]]
            IN [doc |-> new, coll |-> (store[m] \ {old}) \cup {new}]

\* A findOne that forgets its filter: any document of the collection.
FindByIdAny(m, id) ==
    IF store[m] = {} THEN Null ELSE CHOOSE d \in store[m] : TRUE

\* Model.findById(id): the document or null.
FindById(m, id) ==
    LET hit == {d \in store[m] : d._id = ObjectId(id)}
    IN IF hit = {} THEN Null ELSE CHOOSE d \in hit : TRUE

\* Model.findByIdAndDelete(id): the collection without the document.
FindByIdAndDelete(m, id) == {d \in store[m] : d._id # ObjectId(id)}

\* The conditions of a query filter on one document: a regular expression
\* on a text path, an exact match (the string is cast to the path's type).
RegexClause(doc, c) ==
    doc[c.path].kind = "string" /\ RegexMatchI(c.val, doc[c.path].v)

\* An exact match that compares the query string as it came, without the cast.
EqClauseUncast(m, doc, c) == doc[c.path] = Str(c.val)

EqClause(m, doc, c) == doc[c.path] = Cast(Schema[m][c.path].type, Str(c.val)).val

NoFilter == [eq |-> {}, regex |-> {}, any |-> {}]

\* Model.find(where): the conditions of where.eq and where.regex hold
\* together; of where.any ($or), when there are any, at least one holds.
Find(m, where) ==
    {d \in store[m] :
        /\ \A c \in where.eq : EqClause(m, d, c)
        /\ \A c \in where.regex : RegexClause(d, c)
        /\ where.any = {} \/ \E c \in where.any : RegexClause(d, c)}

(***************************************************************************)
(* The requests of a run: sample values for every key of every module.     *)
(* Each key has values that pass its rule and values that break it; date   *)
(* keys also have a string that matches the pattern and names no date, and *)
(* reference keys a string that is no ObjectId.                            *)
(***************************************************************************)
JaneDoe == <<"J", "a", "n", "e", " ", "D", "o", "e">>

Jo == <<"J", "o">>

DrWho == <<"D", "r", " ", "W", "h", "o">>

GP == <<"G", "P">>

CBC == <<"C", "B", "C">>

Gloves == <<"g", "l", "o", "v", "e", "s">>

\* "1990-05-01", "2001-12-31", "1990-5-1", "2024-13-45"
Date1990 == <<"1", "9", "9", "0", "-", "0", "5", "-", "0", "1">>

Date2001 == <<"2", "0", "0", "1", "-", "1", "2", "-", "3", "1">>

DateShort == <<"1", "9", "9", "0", "-", "5", "-", "1">>

DateMonth13 == <<"2", "0", "2", "4", "-", "1", "3", "-", "4", "5">>

\* "2024-05-01T<hh>:00:00.000Z"
DateTimeAt(hh) ==
    <<"2", "0", "2", "4", "-", "0", "5", "-", "0", "1", "T">> \o hh
        \o <<":", "0", "0", ":", "0", "0", ".", "0", "0", "0", "Z">>

Time09 == DateTimeAt(<<"0", "9">>)

Time10 == DateTimeAt(<<"1", "0">>)

Time11 == DateTimeAt(<<"1", "1">>)

Time25 == DateTimeAt(<<"2", "5">>)

\* "2024-05-01 10:00"
TimeNoSeconds ==
    <<"2", "0", "2", "4", "-", "0", "5", "-", "0", "1", " ", "1", "0", ":", "0", "0">>

RefA == Str(Hex24[1])

RefB == Str(Hex24[2])

NotAnObjectId == Str("abc")

FieldPayloads ==
    [m \in Modules |->
        CASE m = "patients" ->
            {Body([name |-> n, dob |-> d, gender |-> g]) :
                n \in {Undefined, Str(JaneDoe), Str(Jo), Str(<<"J">>)},
                d \in {Undefined, Str(Date1990), Str(DateShort), Str(DateMonth13)},
                g \in {Undefined, Str("F"), Str("X")}}
          [] m = "providers" ->
            {Body([name |-> n, specialty |-> s, active |-> a]) :
                n \in {Undefined, Str(DrWho), Str(<<"D">>)},
                s \in {Undefined, Str(GP), Num(50)},
                a \in {Undefined, Bool(TRUE), Bool(FALSE), Str("yes")}}
          [] m = "appointments" ->
            {Body([patientId |-> p, providerId |-> q, start |-> b, end |-> e,
                   status |-> s]) :
                p \in {Undefined, RefA, RefB},
                q \in {Undefined, RefA},
                b \in {Undefined, Str(Time10), Str(TimeNoSeconds)},
                e \in {Undefined, Str(Time09), Str(Time11), Str(Time25)},
                s \in {Undefined, Str("completed"), Str("bogus")}}
          [] m = "encounters" ->
            {Body([patientId |-> p, providerId |-> q, date |-> d, notes |-> n]) :
                p \in {Undefined, RefA, RefB},
                q \in {Undefined, RefA},
                d \in {Undefined, Str(Time10), Str(TimeNoSeconds)},
                n \in {Undefined, Str("seen"), Num(50)}}
          [] m = "prescriptions" ->
            {Body([patientId |-> p, providerId |-> q, medication |-> md,
                   dosage |-> ds, startDate |-> b, endDate |-> e, status |-> s]) :
                p \in {Undefined, RefA, RefB},
                q \in {Undefined, RefA},
                md \in {Undefined, Str("aspirin")},
                ds \in {Undefined, Str("10mg")},
                b \in {Undefined, Str(Date1990)},
                e \in {Undefined, Str(Date2001), Str(DateMonth13)},
                s \in {Undefined, Str("completed"), Str("bogus")}}
          [] m = "labs" ->
            {Body([patientId |-> p, testName |-> t, result |-> r, date |-> d]) :
                p \in {Undefined, RefA, RefB, NotAnObjectId},
                t \in {Undefined, Str(CBC), Str(<<>>)},
                r \in {Undefined, Str("negative"), Num(50)},
                d \in {Undefined, Str(Date1990), Str(DateShort)}}
          [] m = "vitals" ->
            {Body([patientId |-> p, date |-> d, heartRate |-> h,
                   bloodPressure |-> b, temperature |-> t]) :
                p \in {Undefined, RefA, RefB},
                d \in {Undefined, Str(Date1990), Str(DateMonth13)},
                h \in {Undefined, Num(600), Num(0), Num(605)},
                b \in {Undefined, Str("120/80")},
                t \in {Undefined, Num(366), Str("hot")}}
          [] m = "inventory" ->
            {Body([name |-> n, quantity |-> q, reorderLevel |-> r]) :
                n \in {Undefined, Str(Gloves), Num(50)},
                q \in {Undefined, Num(0), Num(100), Num(-10), Num(15)},
                r \in {Undefined, Num(50), Num(-10)}}
          [] m = "billing" ->
            {Body([patientId |-> p, amount |-> a, status |-> s, dueDate |-> d]) :
                p \in {Undefined, RefA, RefB},
                a \in {Undefined, Num(1005), Num(0), Str("x")},
                s \in {Undefined, Str("paid"), Str("bogus")},
                d \in {Undefined, Str(Date1990), Str(DateShort)}}]

\* A body that carries an _id of its own beside its other keys.
WithId(body) ==
    [k \in DOMAIN body \cup {"_id"} |-> IF k = "_id" THEN RefB ELSE body[k]]

\* The request bodies of a run: the bodies above and, of those with no key
\* or with just the keys the create schema demands, the same with an _id.
Payloads ==
    [m \in Modules |->
        FieldPayloads[m] \cup
        {WithId(b) : b \in {c \in FieldPayloads[m] :
            \/ DOMAIN c = {}
            \/ DOMAIN c = {k \in DOMAIN CreateSchema[m] : ~CreateSchema[m][k].optional}}}]

\* The query strings of search requests: the parameters a module reads, with
\* an empty value too, and one parameter (foo) no module reads.
Queries ==
    [m \in Modules |->
        CASE m = "patients" ->
            {Body([term |-> t, foo |-> x]) :
                t \in {Undefined, Str(<<>>), Str(<<"j", "a", "n", "e">>),
                       Str(<<"z", "z">>)},
                x \in {Undefined, Str("1")}}
          [] m = "providers" ->
            {Body([term |-> t, foo |-> x]) :
                t \in {Undefined, Str(<<>>), Str(<<"g", "p">>), Str(<<"w", "h", "o">>)},
                x \in {Undefined, Str("1")}}
          [] m \in {"appointments", "encounters", "prescriptions"} ->
            {Body([patientId |-> p, providerId |-> q, foo |-> x]) :
                p \in {Undefined, Str(""), RefA, RefB},
                q \in {Undefined, RefA, RefB},
                x \in {Undefined, Str("1")}}
          [] m = "labs" ->
            {Body([patientId |-> p, testName |-> t, foo |-> x]) :
                p \in {Undefined, RefA, RefB},
                t \in {Undefined, Str(<<"c", "b">>), Str(<<"z", "z">>)},
                x \in {Undefined, Str("1")}}
          [] m = "vitals" ->
            {Body([patientId |-> p, foo |-> x]) :
                p \in {Undefined, Str(""), RefA, RefB},
                x \in {Undefined, Str("1")}}
          [] m = "inventory" ->
            {Body([name |-> n, foo |-> x]) :
                n \in {Undefined, Str(<<"G", "L", "O">>), Str(<<"z", "z">>)},
                x \in {Undefined, Str("1")}}
          [] m = "billing" ->
            {Body([patientId |-> p, status |-> s, foo |-> x]) :
                p \in {Undefined, RefA, RefB},
                s \in {Undefined, Str("paid"), Str("unpaid")},
                x \in {Undefined, Str("1")}}]

\* The bodies of POST /:id/notes.
NoteBodies == {Body([note |-> n]) : n \in {Undefined, Str("call back")}}

\* The ids of request paths: the ObjectIds the store can assign, and one it
\* never assigns.
PathIds == {Hex24[i] : i \in 1..(MaxRecords + 1)}

(***************************************************************************)
(* The handlers.  Each is given as the outcome of one request in the       *)
(* current state: the response, the module's collection afterwards and the *)
(* next ObjectId.                                                          *)
(***************************************************************************)
\* if (x), x || y, x ? y : z of JavaScript.
Truthy(val) ==
    CASE val.kind \in {"undefined", "null"} -> FALSE
      [] val.kind = "string" -> Len(val.v) > 0
      [] val.kind = "number" -> val.v # 0
      [] val.kind = "boolean" -> val.v
      [] OTHER -> TRUE

\* The keys a handler turns into Date values.
DateFields ==
    [m \in Modules |->
        CASE m = "patients" -> {"dob"}
          [] m = "appointments" -> {"start", "end"}
          [] m = "encounters" -> {"date"}
          [] m = "prescriptions" -> {"startDate", "endDate"}
          [] m = "labs" -> {"date"}
          [] m = "vitals" -> {"date"}
          [] m = "billing" -> {"dueDate"}
          [] OTHER -> {}]

Response(op, m, status, body) ==
    [op |-> op, module |-> m, status |-> status, body |-> body]

NoResponse == Response("none", "none", 0, {})

\* { error: 'validation_error', details: err.errors }; of the issues the model
\* keeps their codes, and an err without errors gives no details.
ValidationErrorBody(errors) ==
    [error |-> "validation_error", details |-> {e.code : e \in errors}]

NotFoundBody == [error |-> "not_found"]

Outcome(r, coll, id) == [resp |-> r, coll |-> coll, nextId |-> id]

\* A handler that puts start and end of an appointment in order before the insert.
CreateObjectOrdered(m, data) ==
    LET b == NewDate(data.start.v)
        e == NewDate(data["end"].v)
    IN IF m = "appointments" /\ SeqLess(e.v, b.v)
       THEN [k \in DOMAIN data |->
                CASE k = "start" -> e [] k = "end" -> b [] OTHER -> data[k]]
       ELSE [k \in DOMAIN data \cup DateFields[m] |->
                IF k \in DateFields[m] THEN NewDate(data[k].v) ELSE data[k]]

\* The object a POST handler passes to Model.create.
CreateObject(m, data) ==
    CASE m = "patients" ->
            [name |-> Get(data, "name"),
             dob |-> NewDate(data.dob.v),
             gender |-> IF Truthy(Get(data, "gender")) THEN data.gender ELSE Str("O")]
      [] m \in {"providers", "inventory"} -> data
      [] OTHER ->
            [k \in DOMAIN data \cup DateFields[m] |->
                IF k \in DateFields[m] THEN NewDate(data[k].v) ELSE data[k]]

\* The object a PUT handler passes to findByIdAndUpdate.
UpdateObject(m, data) ==
    IF m \in {"providers", "inventory"} THEN data
    ELSE [k \in DOMAIN data \cup DateFields[m] |->
            IF k \in DateFields[m]
            THEN IF Truthy(Get(data, k)) THEN NewDate(data[k].v) ELSE Undefined
            ELSE data[k]]

\* router.post('/'), up to the insert: the parse, the object for
\* Model.create and the errors of its validation.
PostParsed(m, body) ==
    LET z == ZodParse(CreateSchema[m], body)
        obj == IF z.ok THEN CreateObject(m, z.data) ELSE <<>>
    IN [zod |-> z, obj |-> obj,
        errors |-> IF z.ok THEN ValidationErrors(m, obj) ELSE {}]

PostTable == [m \in Modules |-> [body \in Payloads[m] |-> PostParsed(m, body)]]

\* router.post('/') without the parse and without the store's validation: the
\* body goes into the collection as it came.
PostUnvalidated(m, body) ==
    LET doc == NewDocument(m, body, Hex24[nextId], now)
    IN Outcome(Response("create", m, 201, doc), store[m] \cup {doc}, nextId + 1)

\* router.post('/')
Post(m, body) ==
    LET p == PostTable[m][body]
        doc == NewDocument(m, p.obj, Hex24[nextId], now)
    IN IF ~p.zod.ok
       THEN Outcome(Response("create", m, 400, ValidationErrorBody(p.zod.errors)),
                    store[m], nextId)
       ELSE IF p.errors # {}
       THEN Outcome(Response("create", m, 400, ValidationErrorBody(p.errors)),
                    store[m], nextId)
       ELSE Outcome(Response("create", m, 201, doc), store[m] \cup {doc}, nextId + 1)

\* A handler that drops the keys the parse objects to and writes the others.
PutParsedLenient(m, body) ==
    LET z == ZodParse(UpdateSchema[m], body)
        bad == {e.path : e \in z.errors}
        data == [k \in DOMAIN z.data \ bad |-> z.data[k]]
    IN [zod |-> [ok |-> TRUE, errors |-> {}, data |-> data],
        update |-> CastUpdate(m, UpdateObject(m, data))]

\* router.put('/:id'), up to the call of the store: the parse and the cast
\* of the update.
PutParsed(m, body) ==
    LET z == ZodParse(UpdateSchema[m], body)
    IN [zod |-> z,
        update |-> IF z.ok THEN CastUpdate(m, UpdateObject(m, z.data))
                   ELSE [error |-> "none", set |-> <<>>]]

PutTable == [m \in Modules |-> [body \in Payloads[m] |-> PutParsed(m, body)]]

\* router.put('/:id')
Put(m, id, body) ==
    LET p == PutTable[m][body]
        u == FindByIdAndUpdate(m, id, p.update.set)
    IN IF ~p.zod.ok
       THEN Outcome(Response("update", m, 400, ValidationErrorBody(p.zod.errors)),
                    store[m], nextId)
       ELSE IF p.update.error # "none"
       THEN Outcome(Response("update", m, 400, ValidationErrorBody({})),
                    store[m], nextId)
       ELSE IF u.doc = Null
       THEN Outcome(Response("update", m, 404, NotFoundBody), u.coll, nextId)
       ELSE Outcome(Response("update", m, 200, u.doc), u.coll, nextId)

\* A cancel that protects the terminal state: a completed appointment stays.
PatchCancelGuarded(id) ==
    LET old == FindById("appointments", id)
        u == FindByIdAndUpdate("appointments", id,
                 CastUpdate("appointments", [status |-> Str("cancelled")]).set)
    IN IF old = Null
       THEN Outcome(Response("cancel", "appointments", 404, NotFoundBody),
                    store["appointments"], nextId)
       ELSE IF old.status = Str("completed")
       THEN Outcome(Response("cancel", "appointments", 409, [error |-> "conflict"]),
                    store["appointments"], nextId)
       ELSE Outcome(Response("cancel", "appointments", 200, u.doc), u.coll, nextId)

\* router.patch('/:id/cancel') of the appointments module
PatchCancel(id) ==
    LET u == FindByIdAndUpdate("appointments", id,
                 CastUpdate("appointments", [status |-> Str("cancelled")]).set)
    IN IF u.doc = Null
       THEN Outcome(Response("cancel", "appointments", 404, NotFoundBody),
                    u.coll, nextId)
       ELSE Outcome(Response("cancel", "appointments", 200, u.doc), u.coll, nextId)

\* A delete that looks the record up first and reports a missing one.
DeleteByIdChecked(m, id) ==
    IF FindById(m, id) = Null
    THEN Outcome(Response("delete", m, 404, NotFoundBody), store[m], nextId)
    ELSE Outcome(Response("delete", m, 204, {}), FindByIdAndDelete(m, id), nextId)

\* router.delete('/:id')
DeleteById(m, id) ==
    Outcome(Response("delete", m, 204, {}), FindByIdAndDelete(m, id), nextId)

\* router.get('/:id')
GetById(m, id) ==
    LET doc == FindById(m, id)
    IN IF doc = Null
       THEN Outcome(Response("get", m, 404, NotFoundBody), store[m], nextId)
       ELSE Outcome(Response("get", m, 200, doc), store[m], nextId)

\* router.get('/')
GetList(m) ==
    Outcome(Response("list", m, 200, Find(m, NoFilter)),
            store[m], nextId)

\* router.get('/count')
GetCount(m) ==
    Outcome(Response("count", m, 200, [count |-> Cardinality(store[m])]),
            store[m], nextId)

\* The query parameters a module's search reads as exact-match or regex
\* conditions (if (param) where[path] = ...).
SearchParams ==
    [m \in Modules |->
        CASE m \in {"appointments", "encounters", "prescriptions"} ->
                {[param |-> "patientId", op |-> "eq"],
                 [param |-> "providerId", op |-> "eq"]}
          [] m = "labs" ->
                {[param |-> "patientId", op |-> "eq"],
                 [param |-> "testName", op |-> "regex"]}
          [] m = "vitals" -> {[param |-> "patientId", op |-> "eq"]}
          [] m = "inventory" -> {[param |-> "name", op |-> "regex"]}
          [] m = "billing" ->
                {[param |-> "patientId", op |-> "eq"],
                 [param |-> "status", op |-> "eq"]}
          [] OTHER -> {}]

\* A filter built of the parameters that are present alone: without a term
\* the search of patients and providers asks for nothing.
SearchFilterOfPresent(m, query) ==
    LET given(op) == {q \in SearchParams[m] : q.op = op /\ Truthy(Get(query, q.param))}
        conds(op) == {[path |-> p.param, val |-> query[p.param].v] : p \in given(op)}
    IN CASE m = "patients" /\ Truthy(Get(query, "term")) ->
              [NoFilter EXCEPT !.regex = {[path |-> "name", val |-> query.term.v]}]
         [] m = "providers" /\ Truthy(Get(query, "term")) ->
              [NoFilter EXCEPT !.any = {[path |-> "name", val |-> query.term.v],
                                        [path |-> "specialty", val |-> query.term.v]}]
         [] m \in {"patients", "providers"} -> NoFilter
         [] OTHER ->
              [NoFilter EXCEPT !.eq = conds("eq"), !.regex = conds("regex")]

\* The filter router.get('/search') hands to Model.find.
SearchFilter(m, query) ==
    LET term == IF Truthy(Get(query, "term")) THEN query.term.v ELSE <<>>
        given(op) == {q \in SearchParams[m] : q.op = op /\ Truthy(Get(query, q.param))}
        conds(op) == {[path |-> p.param, val |-> query[p.param].v] : p \in given(op)}
    IN CASE m = "patients" ->
              [NoFilter EXCEPT !.regex = {[path |-> "name", val |-> term]}]
         [] m = "providers" ->
              [NoFilter EXCEPT !.any = {[path |-> "name", val |-> term],
                                        [path |-> "specialty", val |-> term]}]
         [] OTHER ->
              [NoFilter EXCEPT !.eq = conds("eq"), !.regex = conds("regex")]

\* router.get('/search')
GetSearch(m, query) ==
    Outcome(Response("search", m, 200, Find(m, SearchFilter(m, query))),
            store[m], nextId)

\* A history that looks the record up and reports a missing one.
GetHistoryChecked(m, id) ==
    IF FindById(m, id) = Null
    THEN Outcome(Response("history", m, 404, NotFoundBody), store[m], nextId)
    ELSE Outcome(Response("history", m, 200, <<>>), store[m], nextId)

\* router.get('/:id/history'), router.post('/:id/notes'), router.get('/:id/related')
GetHistory(m, id) == Outcome(Response("history", m, 200, <<>>), store[m], nextId)

PostNotes(m, id, body) ==
    Outcome(Response("notes", m, 200, [status |-> "note added"]), store[m], nextId)

GetRelated(m, id) == Outcome(Response("related", m, 200, <<>>), store[m], nextId)

\* The reports module.  bound: mongoose.models.<Type> was there when the
\* module was loaded, so the constant is a model and not null; fails: the
\* store rejects the call.
\* $sum of the amounts of a set of invoices.
RECURSIVE SumAmount(_)
SumAmount(docs) ==
    IF docs = {} THEN 0
    ELSE LET d == CHOOSE x \in docs : TRUE
         IN (IF d.amount.kind = "number" THEN d.amount.v ELSE 0) + SumAmount(docs \ {d})

\* Billing.aggregate([{ $group: { _id: '$status', total: { $sum: '$amount' } } }])
AggregateByStatus(docs) ==
    {[_id |-> s, total |-> Num(SumAmount({d \in docs : d.status = s}))] :
        s \in {d.status : d \in docs}}

\* A report without its catch: the rejection of the store becomes a 500.
GetReportAppointmentsUncaught(bound, fails) ==
    IF bound /\ fails
    THEN Response("reportAppointments", "reports", 500, [error |-> "server_error"])
    ELSE Response("reportAppointments", "reports", 200,
                  [total |-> IF bound THEN Cardinality(store["appointments"]) ELSE 0])

\* router.get('/appointments') of the reports module
GetReportAppointments(bound, fails) ==
    IF bound /\ ~fails
    THEN Response("reportAppointments", "reports", 200,
                  [total |-> Cardinality(store["appointments"])])
    ELSE Response("reportAppointments", "reports", 200, [total |-> 0])

\* router.get('/billing') of the reports module
GetReportBilling(bound, fails) ==
    IF bound /\ ~fails
    THEN Response("reportBilling", "reports", 200, AggregateByStatus(store["billing"]))
    ELSE Response("reportBilling", "reports", 200, {})

(***************************************************************************)
(* The state machine: one request at a time on the module in focus; the   *)
(* response stays in resp until the client has taken it.  before is a      *)
(* history variable: the collection in focus as it was when the last       *)
(* response was taken, that is, as the request being answered found it.    *)
(***************************************************************************)
Init ==
    /\ focus \in Modules
    /\ store = [m \in Modules |-> {}]
    /\ nextId = 1
    /\ now = 0
    /\ resp = NoResponse
    /\ before = {}
    /\ inflight = <<>>

Idle == resp.op = "none"

Apply(m, o) ==
    /\ resp' = o.resp
    /\ store' = [store EXCEPT ![m] = o.coll]
    /\ nextId' = o.nextId
    /\ UNCHANGED <<now, focus, before, inflight>>

Create(m, body) ==
    /\ Idle /\ m = focus
    /\ LET o == Post(m, body)
       IN o.nextId <= MaxRecords + 1 /\ Apply(m, o)

Update(m, id, body) == Idle /\ m = focus /\ Apply(m, Put(m, id, body))

Cancel(id) == Idle /\ focus = "appointments" /\ Apply("appointments", PatchCancel(id))

\* A delete that cascades: the records of the other collections that refer
\* to the id go with the record.
DeleteCascade(m, id) ==
    /\ Idle /\ m = focus
    /\ resp' = DeleteById(m, id).resp
    /\ store' = [n \in Modules |->
                    IF n = m THEN FindByIdAndDelete(m, id)
                    ELSE {d \in store[n] :
                            \A k \in DOMAIN d \cap {"patientId", "providerId"} :
                                d[k] # ObjectId(id)}]
    /\ UNCHANGED <<nextId, now, focus, before, inflight>>

Delete(m, id) == Idle /\ m = focus /\ Apply(m, DeleteById(m, id))

Read(m, id) == Idle /\ m = focus /\ Apply(m, GetById(m, id))

List(m) == Idle /\ m = focus /\ Apply(m, GetList(m))

Count(m) == Idle /\ m = focus /\ Apply(m, GetCount(m))

Search(m, query) == Idle /\ m = focus /\ Apply(m, GetSearch(m, query))

History(m, id) == Idle /\ m = focus /\ Apply(m, GetHistory(m, id))

Notes(m, id, body) == Idle /\ m = focus /\ Apply(m, PostNotes(m, id, body))

Related(m, id) == Idle /\ m = focus /\ Apply(m, GetRelated(m, id))

ReportAppointments(bound, fails) ==
    /\ Idle
    /\ resp' = GetReportAppointments(bound, fails)
    /\ UNCHANGED <<store, nextId, now, focus, before, inflight>>

ReportBilling(bound, fails) ==
    /\ Idle
    /\ resp' = GetReportBilling(bound, fails)
    /\ UNCHANGED <<store, nextId, now, focus, before, inflight>>

\* Time passes between two requests.
Tick ==
    /\ Idle /\ now < MaxClock
    /\ now' = now + 1
    /\ UNCHANGED <<store, nextId, resp, focus, before, inflight>>

\* The client takes the response.
Deliver ==
    /\ ~Idle
    /\ resp' = NoResponse
    /\ before' = store[focus]
    /\ UNCHANGED <<store, nextId, now, focus, inflight>>

Next ==
    \/ \E body \in Payloads[focus] : Create(focus, body)
    \/ \E id \in PathIds, body \in Payloads[focus] : Update(focus, id, body)
    \/ \E id \in PathIds : Cancel(id)
    \/ \E id \in PathIds : Delete(focus, id)
    \/ \E id \in PathIds : Read(focus, id)
    \/ List(focus)
    \/ Count(focus)
    \/ \E query \in Queries[focus] : Search(focus, query)
    \/ \E id \in PathIds : History(focus, id)
    \/ \E id \in PathIds, body \in NoteBodies : Notes(focus, id, body)
    \/ \E id \in PathIds : Related(focus, id)
    \/ \E bound \in BOOLEAN, fails \in BOOLEAN : ReportAppointments(bound, fails)
    \/ \E bound \in BOOLEAN, fails \in BOOLEAN : ReportBilling(bound, fails)
    \/ Tick
    \/ Deliver

\* The client turns to the router of another module.
Switch(m) ==
    /\ Idle /\ m # focus
    /\ focus' = m
    /\ before' = store[m]
    /\ UNCHANGED <<store, nextId, now, resp, inflight>>

Spec == Init /\ [][Next]_vars

(***************************************************************************)
(* Properties.  Idle states are the states between two requests; a         *)
(* property of a handler is stated there for every request of the samples. *)
(***************************************************************************)
\* The keys a create payload must carry.
RequiredKeys(m) == {k \in DOMAIN CreateSchema[m] : ~CreateSchema[m][k].optional}

Ids(coll) == {d._id : d \in coll}

\* A payload that satisfies every rule of the create schema, of the update schema.
ValidCreate(m, body) == ZodParse(CreateSchema[m], body).ok

ValidPartial(m, body) == ZodParse(UpdateSchema[m], body).ok

\* Of a payload that satisfies the rules: every reference it carries has the
\* 24 digits of an ObjectId and every date string names a date that exists.
CastsForStore(m, body) ==
    \A k \in DOMAIN body \cap Fields(m) :
        /\ Schema[m][k].type = "ObjectId" => Len(body[k].v) = 24
        /\ k \in DateFields[m] => NewDate(body[k].v) # InvalidDate

\* ... and every required text it carries is not empty.
StoreAccepts(m, body) ==
    /\ CastsForStore(m, body)
    /\ \A k \in DOMAIN body \cap Fields(m) :
          (Schema[m][k].type = "String" /\ Schema[m][k].required) => Len(body[k].v) > 0

\* C1: for every record type, create with a payload that lacks a required
\* field answers 400 validation_error and writes nothing: the collection
\* holds the same records after the call as before it.
CreateMissingRequiredRejected ==
    Idle => \A body \in Payloads[focus] :
        RequiredKeys(focus) \ DOMAIN body # {} =>
            LET o == Post(focus, body)
            IN /\ o.resp.status = 400
               /\ o.resp.body.error = "validation_error"
               /\ o.coll = store[focus]

\* A create was answered 400 for a missing field, on a collection that holds
\* records, and the collection is as the request found it.
CreateMissingRequiredSeen ==
    /\ focus # "labs"
    /\ resp.op = "create" /\ resp.status = 400
    /\ "required" \in resp.body.details
    /\ before # {} /\ store[focus] = before

\* C2 as stated: for every record type, create with a payload in which every
\* required field is present and every field satisfies its validation rule
\* answers 201 with a record whose id no record of the collection has, and
\* the count after the call is the count before it plus one.
CreateValidByRulesAddsOne ==
    Idle => \A body \in Payloads[focus] :
        ValidCreate(focus, body) =>
            LET o == Post(focus, body)
            IN /\ o.resp.status = 201
               /\ o.resp.body._id \notin Ids(store[focus])
               /\ Cardinality(o.coll) = Cardinality(store[focus]) + 1

\* C2, amended: a payload that satisfies the rules is answered 201, with a
\* new id and the count raised by one, when the store's schema accepts it too
\* (its references are ObjectIds, its dates exist, its required texts are not
\* empty); when the store's schema does not, it is answered 400
\* validation_error and nothing is written.
CreateValidAddsOne ==
    Idle => \A body \in Payloads[focus] :
        ValidCreate(focus, body) =>
            LET o == Post(focus, body)
            IN IF StoreAccepts(focus, body)
               THEN /\ o.resp.status = 201
                    /\ o.resp.body \in o.coll
                    /\ o.resp.body._id \notin Ids(store[focus])
                    /\ Cardinality(o.coll) = Cardinality(store[focus]) + 1
               ELSE /\ o.resp.status = 400
                    /\ o.resp.body.error = "validation_error"
                    /\ o.coll = store[focus]

\* A create was answered 201 on a collection that held records: the record
\* has a new id and the collection one record more.
CreateValidSeen ==
    /\ resp.op = "create" /\ resp.status = 201
    /\ before # {}
    /\ resp.body._id \notin Ids(before)
    /\ Cardinality(store[focus]) = Cardinality(before) + 1

\* C3: update of an existing record is a partial merge: every field of the
\* stored record that the payload does not carry keeps its value, the date
\* fields the handler passes as undefined included; update with the empty
\* payload succeeds and changes the modification timestamp alone.
UpdateIsPartialMerge ==
    Idle => \A id \in PathIds : \A body \in Payloads[focus] :
        LET old == FindById(focus, id)
            o == Put(focus, id, body)
            hit == {d \in o.coll : d._id = ObjectId(id)}
        IN old # Null =>
              /\ Cardinality(hit) = 1
              /\ o.coll \ hit = store[focus] \ {old}
              /\ \A d \in hit :
                    \A k \in DOMAIN old \ (DOMAIN body \cup {"updatedAt"}) :
                        d[k] = old[k]
              /\ DOMAIN body = {} =>
                    /\ o.resp.status = 200
                    /\ o.resp.body \in hit
                    /\ o.resp.body.updatedAt = DateOf(<<now>>)

\* A patient was updated at a later time than it was written last: the name
\* changed, the date of birth is the date it was.
UpdateIsPartialMergeSeen ==
    /\ focus = "patients"
    /\ resp.op = "update" /\ resp.status = 200
    /\ \E d \in before :
          /\ d._id = resp.body._id
          /\ d.name # resp.body.name
          /\ d.updatedAt # resp.body.updatedAt
          /\ d.dob = resp.body.dob /\ d.dob.kind = "date"

Recognized(m) ==
    IF m \in {"patients", "providers"} THEN {"term"}
    ELSE {p.param : p \in SearchParams[m]}

ReferenceParams(m) == Recognized(m) \cap {"patientId", "providerId"}

CreateThenGetRoundTrip ==
    (resp.op = "create" /\ resp.status = 201) =>
        GetById(focus, resp.body._id.v).resp = Response("get", focus, 200, resp.body)

\* A create has answered 201 in a collection of several records, and getById
\* of the new id yields the record of the answer.
CreateThenGetSeen ==
    /\ resp.op = "create" /\ resp.status = 201
    /\ before # {}
    /\ GetById(focus, resp.body._id.v).resp.body = resp.body

DefaultsAppliedAndKept ==
    LET declared ==
            CASE focus = "patients" -> [gender |-> Str("O")]
              [] focus = "providers" -> [active |-> Bool(TRUE)]
              [] focus = "appointments" -> [status |-> Str("scheduled")]
              [] focus = "encounters" -> [notes |-> Str("")]
              [] focus = "prescriptions" -> [status |-> Str("active")]
              [] focus = "inventory" -> [reorderLevel |-> Num(0)]
              [] focus = "billing" -> [status |-> Str("unpaid")]
              [] OTHER -> <<>>
    IN Idle =>
        /\ \A body \in Payloads[focus] :
              LET o == Post(focus, body)
              IN o.resp.status = 201 =>
                    /\ o.resp.body \in o.coll
                    /\ \A k \in DOMAIN declared \ DOMAIN body :
                          o.resp.body[k] = declared[k]
        /\ \A id \in PathIds : \A body \in Payloads[focus] :
              LET old == FindById(focus, id)
                  o == Put(focus, id, body)
              IN (old # Null /\ o.resp.status = 200) =>
                    /\ o.resp.body \in o.coll
                    /\ \A k \in DOMAIN declared \ DOMAIN body :
                          o.resp.body[k] = old[k]

\* An inventory item whose reorderLevel is not the default was updated in its
\* quantity and the reorderLevel is as it was, beside an item that got the
\* default at its creation (no payload of the samples carries a 0 there).
DefaultKeptSeen ==
    /\ focus = "inventory"
    /\ resp.op = "update" /\ resp.status = 200
    /\ resp.body.reorderLevel # Num(0)
    /\ \E d \in before :
          /\ d._id = resp.body._id
          /\ d.quantity # resp.body.quantity
          /\ d.reorderLevel = resp.body.reorderLevel
    /\ \E d \in store[focus] : d.reorderLevel = Num(0)

\* C10: appointment create and update check no order between start and end:
\* a payload that satisfies the rules and whose end is a date before its
\* start is accepted and stored as given, with 201 on create (200 on the
\* update of an existing appointment).
EndBeforeStartAccepted ==
    (Idle /\ focus = "appointments") => \A body \in Payloads["appointments"] :
        ( /\ {"start", "end"} \subseteq DOMAIN body
          /\ ValidPartial("appointments", body)
          /\ SeqLess(NewDate(body["end"].v).v, NewDate(body.start.v).v) ) =>
            /\ ValidCreate("appointments", body) =>
                  LET o == Post("appointments", body)
                  IN /\ o.resp.status = 201
                     /\ o.resp.body \in o.coll
                     /\ o.resp.body.start = NewDate(body.start.v)
                     /\ o.resp.body["end"] = NewDate(body["end"].v)
            /\ \A id \in PathIds :
                  LET o == Put("appointments", id, body)
                  IN FindById("appointments", id) # Null =>
                        /\ o.resp.status = 200
                        /\ o.resp.body \in o.coll
                        /\ o.resp.body.start = NewDate(body.start.v)
                        /\ o.resp.body["end"] = NewDate(body["end"].v)

\* An appointment was created with 201 and ends before it starts.
EndBeforeStartSeen ==
    /\ focus = "appointments"
    /\ resp.op = "create" /\ resp.status = 201
    /\ SeqLess(resp.body["end"].v, resp.body.start.v)

\* C11: in every state that create, update, cancel and delete requests can
\* reach, each stored enum field holds a value of its declared set: Patient
\* gender in {M, F, O}, Appointment status in {scheduled, completed,
\* cancelled}, Prescription status in {active, completed, cancelled},
\* Billing status in {unpaid, paid, pending}.
EnumFieldsStayInSet ==
    /\ \A d \in store["patients"] : d.gender \in {Str("M"), Str("F"), Str("O")}
    /\ \A d \in store["appointments"] :
          d.status \in {Str("scheduled"), Str("completed"), Str("cancelled")}
    /\ \A d \in store["prescriptions"] :
          d.status \in {Str("active"), Str("completed"), Str("cancelled")}
    /\ \A d \in store["billing"] :
          d.status \in {Str("unpaid"), Str("paid"), Str("pending")}

\* An update that carried a value outside the set was refused on a collection
\* that holds records with enum fields.
EnumRefusedSeen ==
    /\ focus \in {"patients", "appointments", "prescriptions", "billing"}
    /\ resp.op = "update" /\ resp.status = 400
    /\ "invalid_enum_value" \in resp.body.details
    /\ before # {} /\ store[focus] = before

\* C12: in every reachable state no two records of a collection share an id,
\* and update and cancel leave the id of the record as it was assigned at its
\* creation, also when the request body carries an id of its own: the ids of
\* the collection are the same after the request as before it, and the
\* record the request names is answered under the id of the request.
IdsUniqueAndStable ==
    /\ \A m \in Modules : \A d, e \in store[m] : d._id = e._id => d = e
    /\ Idle => \A id \in PathIds :
          /\ \A body \in Payloads[focus] :
                LET o == Put(focus, id, body)
                IN /\ Ids(o.coll) = Ids(store[focus])
                   /\ Cardinality(o.coll) = Cardinality(store[focus])
                   /\ o.resp.status = 200 => o.resp.body._id = ObjectId(id)
          /\ focus = "appointments" =>
                LET o == PatchCancel(id)
                IN /\ Ids(o.coll) = Ids(store[focus])
                   /\ Cardinality(o.coll) = Cardinality(store[focus])
                   /\ o.resp.status = 200 => o.resp.body._id = ObjectId(id)

\* An update changed a record of a collection of two, and the ids of the
\* collection are what they were.
IdsStableSeen ==
    /\ resp.op = "update" /\ resp.status = 200
    /\ Cardinality(before) = 2
    /\ store[focus] # before
    /\ Ids(store[focus]) = Ids(before)
    /\ resp.body._id \in Ids(before)

\* C13: for every record type, update of an existing record with a payload
\* in which some present field breaks its validation rule (wrong type, value
\* outside the enum, number out of range, date string that does not match the
\* pattern) answers 400 validation_error and writes nothing: the stored
\* record is unchanged in every field, the valid fields of the same payload
\* and the modification timestamp included.
UpdateInvalidWritesNothing ==
    Idle => \A id \in PathIds : \A body \in Payloads[focus] :
        (FindById(focus, id) # Null /\ ~ValidPartial(focus, body)) =>
            LET o == Put(focus, id, body)
            IN /\ o.resp.status = 400
               /\ o.resp.body.error = "validation_error"
               /\ o.resp.body.details # {}
               /\ o.coll = store[focus]

\* At a later time than the records were written, an update was refused for
\* a present field that breaks its rule, and the collection is as it was.
UpdateInvalidSeen ==
    /\ resp.op = "update" /\ resp.status = 400
    /\ resp.body.details \cap
          {"invalid_type", "too_small", "invalid_string", "invalid_enum_value"} # {}
    /\ before # {} /\ store[focus] = before
    /\ \A d \in store[focus] : d.updatedAt # DateOf(<<now>>)

\* C14: the placeholder operations history, addNote and relatedRecords of
\* every record type write nothing and do not check that the id exists: for
\* any id and any state of the collection, history and relatedRecords answer
\* with the empty sequence, addNote with {status: note added}, and the
\* collection is left as it was.
PlaceholdersAreStubs ==
    /\ Idle => \A id \in PathIds :
          /\ GetHistory(focus, id) =
                Outcome(Response("history", focus, 200, <<>>), store[focus], nextId)
          /\ GetRelated(focus, id) =
                Outcome(Response("related", focus, 200, <<>>), store[focus], nextId)
          /\ \A body \in NoteBodies :
                PostNotes(focus, id, body) =
                   Outcome(Response("notes", focus, 200, [status |-> "note added"]),
                           store[focus], nextId)
    /\ resp.op \in {"history", "notes", "related"} =>
          /\ store[focus] = before
          /\ resp.status = 200

\* A history was answered although the collection holds no record at all,
\* so none with the id of the request.
PlaceholderOnMissingSeen ==
    /\ resp.op = "history" /\ resp.status = 200 /\ resp.body = <<>>
    /\ nextId > 1
    /\ before = {} /\ store[focus] = {}

\* C15: report aggregation never answers with an error: whenever the
\* appointments or the billing model is not there, or the store rejects the
\* call of the aggregate, GET /reports/appointments answers {total: 0} and
\* GET /reports/billing the empty array, each as a normal success; with the
\* model there and the store answering, the answers are the count and the
\* sums, a success too.
ReportsNeverFail ==
    /\ Idle => \A bound \in BOOLEAN, fails \in BOOLEAN :
          /\ GetReportAppointments(bound, fails).status = 200
          /\ GetReportBilling(bound, fails).status = 200
          /\ (~bound \/ fails) =>
                /\ GetReportAppointments(bound, fails).body = [total |-> 0]
                /\ GetReportBilling(bound, fails).body = {}
    /\ resp.op \in {"reportAppointments", "reportBilling"} =>
          /\ resp.status = 200
          /\ store[focus] = before

\* The appointments report answered {total: 0} although the collection
\* holds appointments: the model was not there or the store rejected the call.
ReportFallbackSeen ==
    /\ resp.op = "reportAppointments" /\ resp.status = 200
    /\ resp.body = [total |-> 0]
    /\ store["appointments"] # {}

(***************************************************************************)
(* Records that refer to each other: one client that writes patients,     *)
(* providers and encounters in turn.                                       *)
(***************************************************************************)
LinkedModules == {"patients", "providers", "encounters"}

InitLinked == Init /\ focus \in LinkedModules

NextLinked ==
    \/ \E body \in Payloads[focus] : Create(focus, body)
    \/ \E id \in PathIds, body \in Payloads[focus] : Update(focus, id, body)
    \/ \E id \in PathIds : Delete(focus, id)
    \/ \E m \in LinkedModules : Switch(m)
    \/ Deliver

SpecLinked == InitLinked /\ [][NextLinked]_vars

\* The patients and providers a reference can name.
Referable == Ids(store["patients"]) \cup Ids(store["providers"])

\* C16: references are never checked against the other collections: create,
\* and update of an existing record, with a payload the rules and the store's
\* schema accept succeeds and stores patientId and providerId as given,
\* whether or not a Patient or Provider has that id; and the delete of a
\* Patient or Provider succeeds and changes no record of another collection,
\* the records that refer to it included (no cascade, no rejection).
ReferencesNeverChecked ==
    /\ [](Idle =>
          /\ \A body \in Payloads[focus] :
                (ValidCreate(focus, body) /\ StoreAccepts(focus, body)) =>
                    LET o == Post(focus, body)
                    IN /\ o.resp.status = 201
                       /\ \A k \in DOMAIN body \cap {"patientId", "providerId"} :
                             o.resp.body[k] = ObjectId(body[k].v)
          /\ \A id \in PathIds : \A body \in Payloads[focus] :
                ( /\ FindById(focus, id) # Null
                  /\ ValidPartial(focus, body) /\ CastsForStore(focus, body) ) =>
                    LET o == Put(focus, id, body)
                    IN /\ o.resp.status = 200
                       /\ \A k \in DOMAIN body \cap {"patientId", "providerId"} :
                             o.resp.body[k] = ObjectId(body[k].v))
    /\ [][(Idle /\ resp'.op = "delete") =>
             /\ resp'.status = 204
             /\ \A m \in Modules \ {focus} : store'[m] = store[m]]_vars

\* A patient or provider was deleted, none is left, and an encounter that
\* refers to the deleted record is still stored.
DanglingReferenceSeen ==
    /\ resp.op = "delete" /\ resp.status = 204
    /\ focus \in {"patients", "providers"}
    /\ before # {} /\ Referable = {}
    /\ \E d \in store["encounters"] :
          d.patientId \in Ids(before) \/ d.providerId \in Ids(before)

(***************************************************************************)
(* The store is down: every call on a model rejects, with an error that   *)
(* carries no list of errors.                                              *)
(***************************************************************************)

\* router.post('/') when Model.create rejects: the catch of the handler takes
\* the rejection as it takes a failed parse.  A payload the rules or the
\* schema refuse is refused before the store is called.
PostStoreDown(m, body) ==
    LET p == PostTable[m][body]
    IN IF ~p.zod.ok THEN Response("create", m, 400, ValidationErrorBody(p.zod.errors))
       ELSE IF p.errors # {} THEN Response("create", m, 400, ValidationErrorBody(p.errors))
       ELSE Response("create", m, 400, ValidationErrorBody({}))

\* router.put('/:id') when findByIdAndUpdate rejects
PutStoreDown(m, id, body) ==
    LET p == PutTable[m][body]
    IN IF ~p.zod.ok THEN Response("update", m, 400, ValidationErrorBody(p.zod.errors))
       ELSE Response("update", m, 400, ValidationErrorBody({}))

\* The handlers that await the store outside any try.
UncaughtOps == {"list", "count", "search", "read", "cancel", "delete"}

\* What the client gets when such a handler's promise rejects: the answer of
\* the framework's error handler where the framework takes the rejection, no
\* answer at all where it does not.
Unhandled(op, m) == {Response(op, m, 500, {}), Response(op, m, 0, {})}

CreateStoreDown(m, body) ==
    /\ Idle /\ m = focus
    /\ resp' = PostStoreDown(m, body)
    /\ UNCHANGED <<store, nextId, now, focus, before, inflight>>

UpdateStoreDown(m, id, body) ==
    /\ Idle /\ m = focus
    /\ resp' = PutStoreDown(m, id, body)
    /\ UNCHANGED <<store, nextId, now, focus, before, inflight>>

RequestStoreDown(op, m) ==
    /\ Idle /\ m = focus
    /\ op = "cancel" => m = "appointments"
    /\ resp' \in Unhandled(op, m)
    /\ UNCHANGED <<store, nextId, now, focus, before, inflight>>

NextOutage ==
    \/ \E body \in Payloads[focus] : Create(focus, body)
    \/ \E body \in Payloads[focus] : CreateStoreDown(focus, body)
    \/ \E id \in PathIds, body \in Payloads[focus] : UpdateStoreDown(focus, id, body)
    \/ \E op \in UncaughtOps : RequestStoreDown(op, focus)
    \/ Deliver

SpecOutage == Init /\ [][NextOutage]_vars

\* A server error: no 2xx, no 400, no 404.
ServerError(r) == r.status \notin {200, 201, 204, 400, 404}

\* C17 as stated: when the store fails during list, count, search, getById,
\* create, update, cancel or delete, the client gets a server error, never
\* 400 validation_error, never not_found, never a success.  For create and
\* update the store is called when the payload passes the rules and the
\* schema's casts and validators.
StoreFailureIsServerError ==
    Idle =>
        /\ \A body \in Payloads[focus] :
              (ValidCreate(focus, body) /\ StoreAccepts(focus, body)) =>
                  ServerError(PostStoreDown(focus, body))
        /\ \A id \in PathIds : \A body \in Payloads[focus] :
              (ValidPartial(focus, body) /\ CastsForStore(focus, body)) =>
                  ServerError(PutStoreDown(focus, id, body))
        /\ \A op \in UncaughtOps : \A r \in Unhandled(op, focus) : ServerError(r)

\* With the store down, a create whose payload nothing objects to was
\* answered 400 validation_error with no details, on a collection that holds
\* records.
StoreFailureAsInvalidInputSeen ==
    /\ resp.op = "create" /\ resp.status = 400
    /\ resp.body = ValidationErrorBody({})
    /\ before # {} /\ store[focus] = before

\* The paths a filter has conditions on.
Conditions(where) ==
    {c.path : c \in where.eq} \cup {c.path : c \in where.regex}
        \cup {c.path : c \in where.any}

\* C18 as stated: a recognized parameter that is absent from the request
\* contributes no condition to the filter: every condition of the filter
\* comes from a parameter that is present, and without a term the search of
\* patients and of providers sends a filter with no condition.
SearchFilterOfPresentOnly ==
    Idle => \A query \in Queries[focus] :
        LET where == SearchFilter(focus, query)
        IN IF focus \in {"patients", "providers"}
           THEN "term" \notin DOMAIN query => Conditions(where) = {}
           ELSE Conditions(where) \subseteq DOMAIN query

\* C18, amended: a reference-id, name, testName or status parameter that is
\* absent contributes no condition; an absent term of the patients' and the
\* providers' search is replaced by the empty string, so the filter carries
\* the same case-insensitive pattern conditions as for term= (on name; on
\* name or specialty), with the empty pattern, which every record matches:
\* the search answers with the whole collection.
SearchAbsentTermIsEmptyPattern ==
    Idle => \A query \in Queries[focus] :
        LET where == SearchFilter(focus, query)
        IN IF focus \in {"patients", "providers"}
           THEN "term" \notin DOMAIN query =>
                   /\ Conditions(where) # {}
                   /\ \A c \in where.regex \cup where.any : c.val = <<>>
                   /\ where = SearchFilter(focus, Body([term |-> Str(<<>>)]))
                   /\ GetSearch(focus, query).resp.body = store[focus]
           ELSE Conditions(where) \subseteq DOMAIN query

\* A search of the providers answered with the whole of a collection of two
\* providers.
SearchWholeCollectionSeen ==
    /\ focus = "providers"
    /\ resp.op = "search" /\ resp.status = 200
    /\ resp.body = store[focus]
    /\ Cardinality(resp.body) = 2

(***************************************************************************)
(* Requests in flight.  A handler of put or cancel runs in two steps, with *)
(* the await between them: it parses and casts, then the store applies its *)
(* findOneAndUpdate as one atomic write and the handler answers with the   *)
(* document the write returns.  The steps of two requests interleave.      *)
(***************************************************************************)
MaxInFlight == 2

\* The modules whose updates run concurrently here.
ConcurrentModules == {"appointments", "billing"}

Committed == {i \in DOMAIN inflight : inflight[i].seq > 0}

\* router.put('/:id') up to the await, on an existing record: the payload
\* parsed and cast.  A payload the parse or the cast refuses never reaches
\* the store.
ArriveUpdate(m, id, body) ==
    LET p == PutTable[m][body]
    IN /\ Idle /\ m = focus
       /\ Len(inflight) < MaxInFlight
       /\ FindById(m, id) # Null
       /\ p.zod.ok /\ p.update.error = "none"
       /\ inflight' = Append(inflight,
              [op |-> "update", id |-> id, named |-> DOMAIN p.zod.data,
               set |-> p.update.set, seq |-> 0, status |-> 0])
       /\ UNCHANGED <<store, nextId, now, resp, focus, before>>

\* router.patch('/:id/cancel') up to the await
ArriveCancel(id) ==
    /\ Idle /\ focus = "appointments"
    /\ Len(inflight) < MaxInFlight
    /\ FindById("appointments", id) # Null
    /\ inflight' = Append(inflight,
           [op |-> "cancel", id |-> id, named |-> {"status"},
            set |-> CastUpdate("appointments", [status |-> Str("cancelled")]).set,
            seq |-> 0, status |-> 0])
    /\ UNCHANGED <<store, nextId, now, resp, focus, before>>

\* A write that is an upsert: when no document has the id, the store makes
\* one of the update.
CommitUpsert(i) ==
    LET r == inflight[i]
        u == FindByIdAndUpsert(focus, r.id, r.set)
    IN /\ r.seq = 0
       /\ store' = [store EXCEPT ![focus] = u.coll]
       /\ inflight' = [inflight EXCEPT
              ![i].seq = Cardinality(Committed) + 1,
              ![i].status = 200]
       /\ UNCHANGED <<nextId, now, resp, focus, before>>

\* The store applies the write of request i, and the handler answers.
Commit(i) ==
    LET r == inflight[i]
        u == FindByIdAndUpdate(focus, r.id, r.set)
    IN /\ r.seq = 0
       /\ store' = [store EXCEPT ![focus] = u.coll]
       /\ inflight' = [inflight EXCEPT
              ![i].seq = Cardinality(Committed) + 1,
              ![i].status = IF u.doc = Null THEN 404 ELSE 200]
       /\ UNCHANGED <<nextId, now, resp, focus, before>>

\* One record, created with every field given, and the requests that meet
\* on it.
InitConcurrent == Init /\ focus \in ConcurrentModules

NextConcurrent ==
    \/ \E body \in Payloads[focus] :
          /\ inflight = <<>> /\ store[focus] = {}
          /\ Fields(focus) \subseteq DOMAIN body
          /\ Create(focus, body)
    \/ inflight = <<>> /\ Deliver
    \/ \E id \in PathIds, body \in Payloads[focus] : ArriveUpdate(focus, id, body)
    \/ \E id \in PathIds : ArriveCancel(id)
    \/ \E i \in DOMAIN inflight : Commit(i)

SpecConcurrent == InitConcurrent /\ [][NextConcurrent]_vars

\* C19: when two requests (two updates, or an update and a cancel) on the
\* same existing record have both been committed, in either order and with
\* any interleaving of their steps, the stored record has, for each field a
\* request names, the value of the request that names it and was committed
\* last; a field only one request names has that request's value.
LastCommittedWriterWinsPerField ==
    ( /\ Len(inflight) = 2 /\ Committed = {1, 2}
      /\ inflight[1].id = inflight[2].id ) =>
        LET doc == FindById(focus, inflight[1].id)
            last(k) == CHOOSE i \in {1, 2} :
                          /\ k \in inflight[i].named
                          /\ \A j \in {1, 2} :
                                k \in inflight[j].named => inflight[j].seq <= inflight[i].seq
        IN /\ doc # Null
           /\ inflight[1].status = 200 /\ inflight[2].status = 200
           /\ \A k \in inflight[1].named \cup inflight[2].named :
                 doc[k] = inflight[last(k)].set[k]

\* A cancel and an update of the same appointment were in flight together;
\* the update, which names the end and not the status, was the first to
\* arrive and the last to be committed: the appointment is cancelled and has
\* the end of the update, and had another status and another end before.
ConcurrentCancelAndUpdateSeen ==
    /\ focus = "appointments"
    /\ Len(inflight) = 2 /\ Committed = {1, 2}
    /\ inflight[1].id = inflight[2].id
    /\ inflight[1].op = "update" /\ inflight[2].op = "cancel"
    /\ inflight[1].seq = 2
    /\ "end" \in inflight[1].named /\ "status" \notin inflight[1].named
    /\ \E d \in store[focus] :
          /\ d.status = Str("cancelled")
          /\ d.end = inflight[1].set.end
          /\ \E e \in before : e._id = d._id /\ e.end # d.end /\ e.status # d.status

\* A stored number that is whole (the model keeps tenths).
IsInteger(val) == val.kind = "number" /\ val.v % 10 = 0

\* C20: in every reachable state every stored numeric field is in its
\* declared range: quantity and reorderLevel of an inventory item are
\* integers >= 0, the amount of a billing is > 0, the heartRate of a vitals
\* record is an integer > 0.
NumericFieldsInRange ==
    /\ \A d \in store["inventory"] :
          /\ IsInteger(d.quantity) /\ d.quantity.v >= 0
          /\ IsInteger(d.reorderLevel) /\ d.reorderLevel.v >= 0
    /\ \A d \in store["billing"] : d.amount.kind = "number" /\ d.amount.v > 0
    /\ \A d \in store["vitals"] : IsInteger(d.heartRate) /\ d.heartRate.v > 0

\* An update of the vitals was refused for a number outside its range (a
\* heartRate of 0 or of 60.5), on a collection that holds records, and the
\* collection is as the request found it.
NumberOutOfRangeRefusedSeen ==
    /\ focus = "vitals"
    /\ resp.op = "update" /\ resp.status = 400
    /\ resp.body.details \cap {"too_small", "invalid_type"} # {}
    /\ before # {} /\ store[focus] = before
    /\ \A d \in store[focus] : d.heartRate = Num(600)

(***************************************************************************)
(* Deleted records.  One client creates, reads and deletes appointments    *)
(* while one update or cancel may be in flight: its write can reach the    *)
(* store after the delete of its record.                                   *)
(***************************************************************************)

InitDeleted == Init /\ focus = "appointments"

NextDeleted ==
    \/ \E body \in Payloads[focus] :
          Fields(focus) \subseteq DOMAIN body /\ Create(focus, body)
    \/ \E id \in PathIds : Delete(focus, id)
    \/ \E id \in PathIds : Read(focus, id)
    \/ \E id \in PathIds, body \in Payloads[focus] :
          inflight = <<>> /\ ArriveUpdate(focus, id, body)
    \/ \E id \in PathIds : inflight = <<>> /\ ArriveCancel(id)
    \/ \E i \in DOMAIN inflight : Commit(i)
    \/ Deliver

SpecDeleted == InitDeleted /\ [][NextDeleted]_vars

\* The ids of deleted records: every id the store has assigned belonged to a
\* record of the collection, and delete alone takes records away.
Deleted ==
    {Hex24[i] : i \in {j \in 1..(nextId - 1) :
                          ObjectId(Hex24[j]) \notin Ids(store[focus])}}

\* C21 as stated: once the delete of an existing record has completed, the
\* record never comes back, and every getById, every cancel and every update
\* with a payload that satisfies the rules, for that id, answers 404
\* not_found.
DeletedIsNotFoundForEver ==
    /\ [](Idle => \A id \in Deleted :
            /\ GetById(focus, id).resp.status = 404
            /\ PatchCancel(id).resp.status = 404
            /\ \A body \in Payloads[focus] :
                  ValidPartial(focus, body) => Put(focus, id, body).resp.status = 404)
    /\ [][\A id \in Deleted : ObjectId(id) \notin Ids(store'[focus])]_vars

\* C21, amended: once the delete of an existing record has completed, no
\* step of any request brings a record of that id back: getById and cancel
\* answer 404 not_found; update answers 404 not_found when its payload passes
\* the rules and the store's casts and 400 validation_error when it does not,
\* and writes nothing either way; an update or cancel that was in flight when
\* the record was deleted answers 404 and writes nothing; create assigns an
\* id no record has had.
DeletedStaysDeleted ==
    /\ [](Idle => \A id \in Deleted :
            /\ GetById(focus, id).resp.status = 404
            /\ PatchCancel(id).resp.status = 404
            /\ PatchCancel(id).coll = store[focus]
            /\ \A body \in Payloads[focus] :
                  LET o == Put(focus, id, body)
                  IN /\ o.coll = store[focus]
                     /\ o.resp.status =
                           IF ValidPartial(focus, body) /\ CastsForStore(focus, body)
                           THEN 404 ELSE 400
            /\ \A body \in Payloads[focus] :
                  LET o == Post(focus, body)
                  IN o.resp.status = 201 => o.resp.body._id \notin
                        {ObjectId(Hex24[j]) : j \in 1..(nextId - 1)})
    /\ [][ /\ \A id \in Deleted : ObjectId(id) \notin Ids(store'[focus])
           /\ \A i \in DOMAIN inflight :
                 ( /\ inflight[i].id \in Deleted
                   /\ inflight[i].seq = 0
                   /\ i \in DOMAIN inflight' /\ inflight'[i].seq > 0 ) =>
                     /\ inflight'[i].status = 404
                     /\ store' = store ]_vars

\* An update arrived for an appointment that was deleted before the store
\* applied the write: the update was answered 404, the collection holds no
\* record of that id, and a record created after the delete has another id.
DeletedUnderUpdateSeen ==
    /\ Len(inflight) = 1 /\ inflight[1].op = "update"
    /\ inflight[1].seq > 0 /\ inflight[1].status = 404
    /\ inflight[1].id \in Deleted
    /\ store[focus] # {}

====
